---- MODULE Spec2Model ----
(***************************************************************************)
(* Model of tweeks_sync.py: the export reconciler (export_userscripts),    *)
(* the record scanner (parse_scripts_from_text), the extraction fallback   *)
(* (extract_userscripts) and the sync driver (sync, init_git_repo,         *)
(* git_commit, copy_to_destination).                                       *)
(*                                                                         *)
(* Strings that the code inspects character by character (names, ids,      *)
(* file names, scanner buffers) are sequences of one-character strings.    *)
(* A script text is a sequence of lines plus the line terminator it uses.  *)
(***************************************************************************)
EXTENDS Integers, Sequences, FiniteSets, TLC

VARIABLES
    files,      \* output directory: file name -> text stored on disk (*.user.js)
    writer,     \* history: file name -> the id whose script was last written to it
    manifest,   \* manifest.json: [kind, scripts, last_updated]
    clock,      \* datetime.now(), one tick per run
    last,       \* record of the most recent export_userscripts call
    gitRepo,    \* output_dir/.git exists
    repoFiles,  \* the files init_git_repo wrote (.gitignore, README.md)
    gitLog,     \* sequence of git invocations requested so far
    dest,       \* destination directory: file name -> text stored on disk
    lastSync,   \* record of the most recent sync call
    extracted,  \* record of the most recent extract_userscripts call
    buf,        \* scanner: the text being scanned
    idx,        \* scanner: search index of the outer loop
    starts,     \* scanner: candidate start offsets examined so far
    found,      \* scanner: id -> script text found so far (insertion ordered)
    scanPc,     \* scanner: "call" before the call, "scan" in the loop, then "done"
    slugText,   \* slugify: the argument of the most recent call
    slugResult, \* slugify: what that call returned
    slugCalls   \* slugify: number of calls so far

vars == <<files, writer, manifest, clock, last, gitRepo, repoFiles, gitLog, dest,
          lastSync, extracted, buf, idx, starts, found, scanPc,
          slugText, slugResult, slugCalls>>

exportVars == <<files, writer, manifest, clock, last>>
syncVars == <<gitRepo, repoFiles, gitLog, dest, lastSync, extracted>>
scanVars == <<buf, idx, starts, found, scanPc>>
slugVars == <<slugText, slugResult, slugCalls>>

----------------------------------------------------------------------------
(* Bounds of the model.                                                    *)

\* export_userscripts calls (complete or interrupted) in one behaviour
MaxRuns == 3

\* fragments concatenated into one scanner buffer
MaxFrags == 2

\* length of the scanner buffers made of arbitrary characters
MaxRaw == 4

\* log files of one database
MaxLogs == 2

\* sync calls in one behaviour
MaxSyncs == 2

\* length of the names given to slugify
MaxName == 3

\* slugify calls in one behaviour
MaxSlugCalls == 2

----------------------------------------------------------------------------
(* Characters and character classes (Python str / re).                     *)

UpperSeq == <<"A","B","C","D","E","F","G","H","I","J","K","L","M",
              "N","O","P","Q","R","S","T","U","V","W","X","Y","Z">>

LowerSeq == <<"a","b","c","d","e","f","g","h","i","j","k","l","m",
              "n","o","p","q","r","s","t","u","v","w","x","y","z">>

Digits == {"0","1","2","3","4","5","6","7","8","9"}

Range(s) == {s[i] : i \in 1..Len(s)}

\* body(v) for v the value of e: a LET whose definition is evaluated once,
\* however often the body uses it
Let(e, body(_)) == CHOOSE r \in {body(v) : v \in {e}} : TRUE

WordChars == Range(UpperSeq) \cup Range(LowerSeq) \cup Digits \cup {"_"}

\* \w of the re module: letters, digits and the underscore
IsWord(c) == c \in WordChars

\* \s of the re module
IsSpace(c) == c \in {" ", "\t", "\n", "\r"}

\* str.lower on one character
LowerChar(c) ==
    IF \E i \in 1..Len(UpperSeq) : UpperSeq[i] = c
    THEN LowerSeq[CHOOSE i \in 1..Len(UpperSeq) : UpperSeq[i] = c]
    ELSE c

\* str.lower
Lower(s) == [i \in 1..Len(s) |-> LowerChar(s[i])]

\* re.sub(r'[^\w\s-]', '', text)
StripNonWord(s) == SelectSeq(s, LAMBDA c : IsWord(c) \/ IsSpace(c) \/ c = "-")

IsSep(c) == c = "-" \/ IsSpace(c)

\* re.sub(r'[-\s]+', '-', text): every maximal run of separators becomes one "-"
RECURSIVE CollapseSeps(_)
CollapseSeps(s) ==
    IF s = <<>> THEN <<>>
    ELSE IF IsSep(s[1])
         THEN IF Len(s) > 1 /\ IsSep(s[2])
              THEN CollapseSeps(Tail(s))
              ELSE <<"-">> \o CollapseSeps(Tail(s))
         ELSE <<s[1]>> \o CollapseSeps(Tail(s))

\* str.strip('-')
RECURSIVE StripHyphens(_)
StripHyphens(s) ==
    IF s = <<>> THEN <<>>
    ELSE IF s[1] = "-" THEN StripHyphens(Tail(s))
    ELSE IF s[Len(s)] = "-" THEN StripHyphens(SubSeq(s, 1, Len(s) - 1))
    ELSE s

\* A faulty variant: the hyphens at the ends are kept.
slugifyUntrimmed(text) == CollapseSeps(StripNonWord(Lower(text)))

slugify(text) == StripHyphens(CollapseSeps(StripNonWord(Lower(text))))

UserJs == <<".","u","s","e","r",".","j","s">>

\* f"{slug}.user.js"
Filename(slug) == slug \o UserJs

----------------------------------------------------------------------------
(* Script texts.  A text is [lines, eol]: its lines and the terminator     *)
(* between them ("LF" or "CRLF").  A line is one of                        *)
(*   [kind |-> "open"]                        // ==UserScript==            *)
(*   [kind |-> "close"]                       // ==/UserScript==           *)
(*   [kind |-> "meta", key, value]            // @key value                *)
(*   [kind |-> "code", key, value]            any other line               *)

OpenLine == [kind |-> "open", key |-> "", value |-> <<>>]
CloseLine == [kind |-> "close", key |-> "", value |-> <<>>]
MetaLine(k, v) == [kind |-> "meta", key |-> k, value |-> v]
CodeLine(v) == [kind |-> "code", key |-> "", value |-> v]

\* Index of the first line of kind k at or after position i, 0 if none
RECURSIVE FirstLine(_, _, _)
FirstLine(lines, k, i) ==
    IF i > Len(lines) THEN 0
    ELSE IF lines[i].kind = k THEN i
    ELSE FirstLine(lines, k, i + 1)

\* The loop body of parse_userscript_metadata: one header line into metadata.
\* A value is [list |-> FALSE, v |-> <<value>>] for a single occurrence and
\* [list |-> TRUE, v |-> <<values in order>>] for a repeated key.
MetaAdd(metadata, line) ==
    IF line.kind # "meta" THEN metadata
    ELSE IF line.key \in DOMAIN metadata
         THEN [metadata EXCEPT ![line.key] =
                  [list |-> TRUE, v |-> Append(metadata[line.key].v, line.value)]]
         ELSE [k \in DOMAIN metadata \cup {line.key} |->
                  IF k = line.key THEN [list |-> FALSE, v |-> <<line.value>>]
                  ELSE metadata[k]]

RECURSIVE MetaFold(_, _, _)
MetaFold(lines, i, j) ==
    IF j < i THEN <<>>
    ELSE MetaAdd(MetaFold(lines, i, j - 1), lines[j])

\* parse_userscript_metadata: the block between the first open line and the
\* first close line after it; no block gives the empty mapping.
parse_userscript_metadata(script) ==
    LET o == FirstLine(script.lines, "open", 1)
        c == IF o = 0 THEN 0 ELSE FirstLine(script.lines, "close", o + 1)
    IN IF o = 0 \/ c = 0 THEN <<>>
       ELSE MetaFold(script.lines, o + 1, c - 1)

\* open(path, 'w').write(text): the text is stored as given (os.linesep is "\n")
WriteText(text) == text

\* open(path, 'r').read(): universal newlines, every "\r\n" is read as "\n"
ReadText(stored) == [stored EXCEPT !.eol = "LF"]

----------------------------------------------------------------------------
(* The inputs the model draws from.                                        *)

Id1 == <<"i","d","1">>
Id2 == <<"i","d","2">>
Id3 == <<"i","d","3">>
Ids == {Id1, Id2, Id3}

NameFooBar == <<"F","o","o"," ","B","a","r">>
NameFooBarSlug == <<"f","o","o","-","b","a","r">>
NameA == <<"A">>
NameB == <<"B">>

Body1 == <<"c","o","n","s","o","l","e",".","l","o","g","(","1",")">>
Body2 == <<"c","o","n","s","o","l","e",".","l","o","g","(","2",")">>

Script(name, body, eol) ==
    [lines |-> <<OpenLine, MetaLine("name", name), CloseLine, CodeLine(body)>>,
     eol |-> eol]

\* "// ==UserScript==\n// @name Foo Bar\n// ==/UserScript==\nconsole.log(1)"
TextFoo1 == Script(NameFooBar, Body1, "LF")
\* the same script with another body
TextFoo2 == Script(NameFooBar, Body2, "LF")
\* TextFoo1 with "\r\n" line ends
TextFooCR == Script(NameFooBar, Body1, "CRLF")
\* a script named "foo-bar": another name with the slug of "Foo Bar"
TextSlug == Script(NameFooBarSlug, Body1, "LF")
\* a script without a header block
TextNoHeader == [lines |-> <<CodeLine(Body1), CodeLine(Body2)>>, eol |-> "LF"]
\* a script whose header has two @name lines
TextTwoNames ==
    [lines |-> <<OpenLine, MetaLine("name", NameA), MetaLine("name", NameB),
                 CloseLine, CodeLine(Body1)>>,
     eol |-> "LF"]

Texts == {TextFoo1, TextFoo2, TextFooCR, TextSlug, TextNoHeader, TextTwoNames}

\* A dict[str, str] in insertion order: a sequence of <<id, text>> with
\* pairwise different ids.
IsDict(d) == \A i, j \in 1..Len(d) : d[i][1] = d[j][1] => i = j

Keys(d) == {d[i][1] : i \in 1..Len(d)}

Get(d, k) == d[CHOOSE i \in 1..Len(d) : d[i][1] = k][2]

\* dict.update: a key already present keeps its position and takes the new
\* value, a new key is appended
RECURSIVE DictUpdate(_, _)
DictUpdate(d, e) ==
    IF e = <<>> THEN d
    ELSE Let(IF e[1][1] \in Keys(d)
             THEN [i \in 1..Len(d) |-> IF d[i][1] = e[1][1] THEN e[1] ELSE d[i]]
             ELSE Append(d, e[1]),
             LAMBDA d1 : DictUpdate(d1, Tail(e)))

\* The texts the extension may hold under each id: id1 is "Foo Bar" in three
\* versions, id2 is a script whose name has the same slug or a script with
\* two @name lines, id3 is a script without a header.
VersionsOf(u) ==
    IF u = Id1 THEN {TextFoo1, TextFoo2, TextFooCR}
    ELSE IF u = Id2 THEN {TextSlug, TextTwoNames}
    ELSE {TextNoHeader}

Pairs == {<<u, t>> : u \in Ids, t \in Texts}

Stored == {p \in Pairs : p[2] \in VersionsOf(p[1])}

\* The input mappings of export_userscripts: up to two scripts, in any order
ScriptMaps ==
    {<<>>}
    \cup {<<p>> : p \in Stored}
    \cup {d \in {<<p, q>> : p \in Stored, q \in Stored} : d[1][1] # d[2][1]}

----------------------------------------------------------------------------
(* export_userscripts.                                                     *)

\* parse_userscript_metadata and slugify on the model's inputs, tabulated once
\* (the values are those of the operators above)
MetadataOf == [t \in Texts |-> parse_userscript_metadata(t)]

ScriptNames ==
    Ids \cup UNION {Range(MetadataOf[t]["name"].v) :
                       t \in {x \in Texts : "name" \in DOMAIN MetadataOf[x]}}

SlugOf == [n \in ScriptNames |-> slugify(n)]

\* An entry of `exported` and of the manifest's scripts list
Entry(uuid, name, filename, metadata, now) ==
    [uuid |-> uuid, name |-> name, filename |-> filename,
     metadata |-> metadata, synced_at |-> now]

\* metadata.get('name', uuid); a repeated @name key gives a list
NameOf(uuid, metadata) ==
    IF "name" \in DOMAIN metadata
    THEN metadata["name"]
    ELSE [list |-> FALSE, v |-> <<uuid>>]

\* A directory without script files
NoFiles == <<>>

\* State of the loop over scripts.items(): the directory's script files, the
\* exported list, the counters, and whether a fault was raised.
\* (writer records, for each file, the id of the script last written to it.)
\* A faulty variant: the export starts by emptying the output directory.
LoopStartCleared(fs, wr) ==
    [files |-> NoFiles, writer |-> NoFiles, exported |-> <<>>, added |-> 0,
     updated |-> 0, fault |-> FALSE]

LoopStart(fs, wr) ==
    [files |-> fs, writer |-> wr, exported |-> <<>>, added |-> 0, updated |-> 0,
     fault |-> FALSE]

\* A faulty variant: the entry is recorded and counted, the file is not
\* written.
ExportOneNoWrite(st, pair, now) ==
    LET nm == NameOf(pair[1], MetadataOf[pair[2]])
    IN IF nm.list THEN [st EXCEPT !.fault = TRUE]
       ELSE [st EXCEPT
               !.exported = Append(@, Entry(pair[1], nm.v[1],
                                            Filename(SlugOf[nm.v[1]]),
                                            MetadataOf[pair[2]], now)),
               !.added = @ + 1]

\* One iteration of the loop, for the pair <<uuid, script>>.
\* slugify(name) raises AttributeError when name is a list.
ExportOne(st, pair, now) ==
    LET uuid == pair[1]
        script == pair[2]
        metadata == MetadataOf[script]
        nm == NameOf(uuid, metadata)
    IN IF nm.list THEN [st EXCEPT !.fault = TRUE]
       ELSE
       LET name == nm.v[1]
           filename == Filename(SlugOf[name])
           is_new == filename \notin DOMAIN st.files
           content_changed ==
               IF is_new THEN FALSE ELSE ReadText(st.files[filename]) # script
           written ==
               [f \in DOMAIN st.files \cup {filename} |->
                   IF f = filename THEN WriteText(script) ELSE st.files[f]]
           wrote == [f \in DOMAIN st.files \cup {filename} |->
                       IF f = filename THEN uuid ELSE st.writer[f]]
       IN [files |-> IF is_new \/ content_changed THEN written ELSE st.files,
           writer |-> IF is_new \/ content_changed THEN wrote ELSE st.writer,
           exported |-> Append(st.exported,
                               Entry(uuid, name, filename, metadata, now)),
           added |-> IF is_new THEN st.added + 1 ELSE st.added,
           updated |-> IF ~is_new /\ content_changed
                       THEN st.updated + 1 ELSE st.updated,
           fault |-> FALSE]

\* The loop after its first n iterations (it stops at a fault)
RECURSIVE ExportLoop(_, _, _, _, _)
ExportLoop(scripts, n, fs, wr, now) ==
    IF n = 0 THEN LoopStart(fs, wr)
    ELSE Let(ExportLoop(scripts, n - 1, fs, wr, now),
             LAMBDA st : IF st.fault THEN st ELSE ExportOne(st, scripts[n], now))

NoManifest == [kind |-> "absent", scripts |-> <<>>, last_updated |-> 0]

\* The manifest the update starts from: the default, replaced by the file's
\* content when the file exists and json.load succeeds.
\*   kind "absent"    no manifest.json
\*   kind "ok"        a JSON object with a "scripts" list
\*   kind "badjson"   a file json.load rejects (JSONDecodeError is passed over)
\*   kind "noscripts" a JSON object without a "scripts" key
LoadManifest(m, now) ==
    IF m.kind \in {"ok", "noscripts"} THEN m
    ELSE [kind |-> "ok", scripts |-> <<>>, last_updated |-> now]

\* A faulty variant: every exported entry is appended, whether its uuid is held or not.
MergeEntriesAppend(scripts, exported, existing_uuids) == scripts \o exported

\* for exp in exported: replace the entries with exp's uuid, or append exp.
\* existing_uuids is computed once, before the loop.
RECURSIVE MergeEntries(_, _, _)
MergeEntries(scripts, exported, existing_uuids) ==
    IF exported = <<>> THEN scripts
    ELSE LET exp == exported[1]
         IN Let(IF exp.uuid \in existing_uuids
                THEN [i \in 1..Len(scripts) |->
                         IF scripts[i].uuid # exp.uuid THEN scripts[i] ELSE exp]
                ELSE Append(scripts, exp),
                LAMBDA s1 : MergeEntries(s1, Tail(exported), existing_uuids))

\* A faulty variant: the manifest is written afresh from the run's entries alone.
UpdateManifestFresh(m, exported, now) ==
    [manifest |-> [kind |-> "ok", scripts |-> exported, last_updated |-> now],
     fault |-> FALSE]

\* The manifest block: [manifest, fault].  manifest['scripts'] raises KeyError
\* on an object without that key, before the file is opened for writing.
UpdateManifest(m, exported, now) ==
    LET loaded == LoadManifest(m, now)
    IN IF loaded.kind = "noscripts" /\ exported # <<>>
       THEN [manifest |-> m, fault |-> TRUE]
       ELSE Let({loaded.scripts[i].uuid : i \in 1..Len(loaded.scripts)},
                LAMBDA existing_uuids :
                   [manifest |-> [kind |-> loaded.kind,
                                  scripts |-> MergeEntries(loaded.scripts, exported,
                                                           existing_uuids),
                                  last_updated |-> now],
                    fault |-> FALSE])

\* export_userscripts(scripts, output_dir, include_manifest) on the directory
\* <<fs, m>> (files last written by wr) at time now.  cut is the number of loop iterations after which
\* the process is interrupted; cut = Len(scripts) + 1 is a run to the end.
export_userscripts(scripts, fs, wr, m, include_manifest, now, cut) ==
    LET n == IF cut > Len(scripts) THEN Len(scripts) ELSE cut
        removed == 0
    IN Let(ExportLoop(scripts, n, fs, wr, now), LAMBDA st :
         LET has_changes == st.added > 0 \/ st.updated > 0 \/ removed > 0
             complete == cut > Len(scripts) /\ ~st.fault
         IN Let(IF complete /\ include_manifest /\ has_changes
                THEN UpdateManifest(m, st.exported, now)
                ELSE [manifest |-> m, fault |-> FALSE],
                LAMBDA upd :
                   [files |-> st.files,
                    writer |-> st.writer,
                    manifest |-> upd.manifest,
                    exported |-> st.exported,
                    added |-> st.added,
                    updated |-> st.updated,
                    removed |-> removed,
                    fault |-> st.fault \/ upd.fault,
                    returned |-> complete /\ ~upd.fault]))

----------------------------------------------------------------------------
(* parse_scripts_from_text.  A buffer is a sequence of characters; the     *)
(* character "U" stands for the header sentinel "==UserScript==".          *)

Quote == "\""
Backslash == "\\"
Sentinel == "U"

\* the lookahead window of the sentinel test, text[start:start+5000]
LookAhead == 5000

MinOf(S) == CHOOSE x \in S : \A y \in S : x <= y

\* text.find('{"', idx): the first position at or after idx where {" begins,
\* 0 when there is none (positions count from 1)
Find(text, from) ==
    LET hits == {p \in from..(Len(text) - 1) : text[p] = "{" /\ text[p + 1] = Quote}
    IN IF hits = {} THEN 0 ELSE MinOf(hits)

\* '==UserScript==' in text[start:start+5000]
SentinelAhead(text, start) ==
    LET stop == IF start + LookAhead - 1 < Len(text)
                THEN start + LookAhead - 1 ELSE Len(text)
    IN \E p \in start..stop : text[p] = Sentinel

\* The for loop over text[start:]: the position after the closing brace of the
\* record (end), or start when the depth never returns to zero.
\* A faulty variant: a backslash is an ordinary character.
RECURSIVE DelimitNoEscape(_, _, _, _, _, _)
DelimitNoEscape(text, start, i, brace_count, in_string, escape_next) ==
    IF i > Len(text) THEN start
    ELSE IF text[i] = Quote
    THEN DelimitNoEscape(text, start, i + 1, brace_count, ~in_string, FALSE)
    ELSE IF in_string
    THEN DelimitNoEscape(text, start, i + 1, brace_count, in_string, FALSE)
    ELSE IF text[i] = "{"
    THEN DelimitNoEscape(text, start, i + 1, brace_count + 1, in_string, FALSE)
    ELSE IF text[i] = "}"
    THEN IF brace_count - 1 = 0
         THEN i + 1
         ELSE DelimitNoEscape(text, start, i + 1, brace_count - 1, in_string, FALSE)
    ELSE DelimitNoEscape(text, start, i + 1, brace_count, in_string, FALSE)

RECURSIVE Delimit(_, _, _, _, _, _)
Delimit(text, start, i, brace_count, in_string, escape_next) ==
    IF i > Len(text) THEN start
    ELSE LET c == text[i]
         IN IF escape_next
            THEN Delimit(text, start, i + 1, brace_count, in_string, FALSE)
            ELSE IF c = Backslash
            THEN Delimit(text, start, i + 1, brace_count, in_string, TRUE)
            ELSE IF c = Quote
            THEN Delimit(text, start, i + 1, brace_count, ~in_string, FALSE)
            ELSE IF in_string
            THEN Delimit(text, start, i + 1, brace_count, in_string, FALSE)
            ELSE IF c = "{"
            THEN Delimit(text, start, i + 1, brace_count + 1, in_string, FALSE)
            ELSE IF c = "}"
            THEN IF brace_count - 1 = 0
                 THEN i + 1
                 ELSE Delimit(text, start, i + 1, brace_count - 1, in_string, FALSE)
            ELSE Delimit(text, start, i + 1, brace_count, in_string, FALSE)

RecordEnd(text, start) == Delimit(text, start, start, 0, FALSE, FALSE)

\* json.loads on the characters of the model: a value is a string or an object
\* (the buffers hold no digits, brackets, blanks or literals).  A parse result
\* is [ok, next, val]; val is [type |-> "str", v |-> characters] or
\* [type |-> "obj", v |-> the members as a dict].
JsonFail == [ok |-> FALSE, next |-> 0, val |-> [type |-> "none", v |-> <<>>]]

\* The body of a string from position j on; acc is the decoded text so far.
\* Of the escapes only \" \\ and \/ can be written with the model's characters.
RECURSIVE JsonStringBody(_, _, _)
JsonStringBody(s, j, acc) ==
    IF j > Len(s) THEN JsonFail
    ELSE IF s[j] = Quote
    THEN [ok |-> TRUE, next |-> j + 1, val |-> [type |-> "str", v |-> acc]]
    ELSE IF s[j] = Backslash
    THEN IF j + 1 <= Len(s) /\ s[j + 1] \in {Quote, Backslash, "/"}
         THEN JsonStringBody(s, j + 2, Append(acc, s[j + 1]))
         ELSE JsonFail
    ELSE JsonStringBody(s, j + 1, Append(acc, s[j]))

RECURSIVE JsonValue(_, _)
RECURSIVE JsonMembers(_, _, _)

\* "key": value pairs up to the closing brace; a repeated key keeps the
\* position of its first occurrence and the value of its last
JsonMembers(s, i, acc) ==
    IF i > Len(s) \/ s[i] # Quote THEN JsonFail
    ELSE LET k == JsonStringBody(s, i + 1, <<>>)
         IN IF ~k.ok \/ k.next > Len(s) \/ s[k.next] # ":" THEN JsonFail
            ELSE LET v == JsonValue(s, k.next + 1)
                 IN IF ~v.ok \/ v.next > Len(s) THEN JsonFail
                    ELSE LET acc1 == DictUpdate(acc, <<<<k.val.v, v.val>>>>)
                         IN IF s[v.next] = ","
                            THEN JsonMembers(s, v.next + 1, acc1)
                            ELSE IF s[v.next] = "}"
                            THEN [ok |-> TRUE, next |-> v.next + 1,
                                  val |-> [type |-> "obj", v |-> acc1]]
                            ELSE JsonFail

JsonValue(s, i) ==
    IF i > Len(s) THEN JsonFail
    ELSE IF s[i] = Quote THEN JsonStringBody(s, i + 1, <<>>)
    ELSE IF s[i] = "{"
    THEN IF i + 1 <= Len(s) /\ s[i + 1] = "}"
         THEN [ok |-> TRUE, next |-> i + 2, val |-> [type |-> "obj", v |-> <<>>]]
         ELSE JsonMembers(s, i + 1, <<>>)
    ELSE JsonFail

\* json.loads(json_str): the whole text must be one value
json_loads(s) ==
    LET r == JsonValue(s, 1)
    IN IF r.ok /\ r.next = Len(s) + 1 THEN r ELSE JsonFail

\* for uuid, script in data.items(): found[uuid] = script when script is a
\* string that contains the sentinel
RECURSIVE CollectScripts(_, _)
CollectScripts(fnd, items) ==
    IF items = <<>> THEN fnd
    ELSE LET uuid == items[1][1]
             script == items[1][2]
             fnd1 == IF script.type = "str" /\ Sentinel \in Range(script.v)
                     THEN DictUpdate(fnd, <<<<uuid, script.v>>>>)
                     ELSE fnd
         IN CollectScripts(fnd1, Tail(items))

\* The body of `if end > start`: found after the delimited text is parsed
FoundAfter(fnd, text, start, end) ==
    LET data == json_loads(SubSeq(text, start, end - 1))
    IN IF data.ok /\ data.val.type = "obj"
       THEN CollectScripts(fnd, data.val.v)
       ELSE fnd

\* A faulty variant: a candidate without an end is searched from again.
ResumeAtStart(start, end) == IF end > start THEN end ELSE start

\* Where the outer search resumes after the candidate at start
ResumeAt(start, end) == IF end > start THEN end ELSE start + 1

\* One pass of `while True` from search index from: [done, idx, start, found]
ScanPass(text, from, fnd) ==
    LET start == Find(text, from)
    IN IF start = 0
       THEN [done |-> TRUE, idx |-> from, start |-> 0, found |-> fnd]
       ELSE IF ~SentinelAhead(text, start)
       THEN [done |-> FALSE, idx |-> start + 1, start |-> start, found |-> fnd]
       ELSE LET end == RecordEnd(text, start)
            IN [done |-> FALSE,
                idx |-> ResumeAt(start, end),
                start |-> start,
                found |-> IF end > start THEN FoundAfter(fnd, text, start, end)
                          ELSE fnd]

\* parse_scripts_from_text(text): the loop run to its break
RECURSIVE ScanFrom(_, _, _)
ScanFrom(text, from, fnd) ==
    LET r == ScanPass(text, from, fnd)
    IN IF r.done THEN r.found ELSE ScanFrom(text, r.idx, r.found)

parse_scripts_from_text(text) == ScanFrom(text, 1, <<>>)

----------------------------------------------------------------------------
(* extract_userscripts.  A database is [verified, logs, ldbs]; a log or    *)
(* table file is [readable, found], where found is the mapping that        *)
(* parse_scripts_from_text returns on the file's text and readable tells   *)
(* whether reading the file (running strings on it) succeeds.              *)

\* A faulty variant: the table files are read whatever the log files gave.
UseFallbackAlways(scripts) == TRUE

\* if not scripts: the table files are read only when the logs gave nothing
UseFallback(scripts) == scripts = <<>>

\* The loop over the files: scripts.update(parse_scripts_from_text(text)) for
\* every file that can be read, a warning for the others
RECURSIVE MergeFiles(_, _)
MergeFiles(scripts, fls) ==
    IF fls = <<>> THEN scripts
    ELSE MergeFiles(IF fls[1].readable THEN DictUpdate(scripts, fls[1].found)
                    ELSE scripts,
                    Tail(fls))

\* extract_userscripts(db_path): [scripts, fallback]; fallback tells whether
\* the *.ldb loop was entered
extract_userscripts(db) ==
    LET primary == MergeFiles(<<>>, db.logs)
    IN IF UseFallback(primary)
       THEN [scripts |-> MergeFiles(primary, db.ldbs), fallback |-> TRUE]
       ELSE [scripts |-> primary, fallback |-> FALSE]

----------------------------------------------------------------------------
(* sync and its helpers.                                                   *)

TweeksPrefix == <<"t","w","e","e","k","s",".">>

\* The loop body of copy_to_destination for the script file f: the counter
\* that is incremented.  Both files are read in text mode for the comparison.
CopyDecision(fs, dst, f) ==
    LET dest_filename == TweeksPrefix \o f
    IN IF dest_filename \in DOMAIN dst
       THEN IF ReadText(fs[f]) = ReadText(dst[dest_filename])
            THEN "skipped" ELSE "overwritten"
       ELSE "added"

\* copy_to_destination(output_dir, dest_dir): the destination directory after
\* the loop (shutil.copy2 copies the stored bytes) and the three counters
copy_to_destination(fs, dst) ==
    LET copied == {f \in DOMAIN fs : CopyDecision(fs, dst, f) # "skipped"}
        names == DOMAIN dst \cup {TweeksPrefix \o f : f \in copied}
        source(n) == CHOOSE f \in copied : TweeksPrefix \o f = n
        count(what) == Cardinality({f \in DOMAIN fs : CopyDecision(fs, dst, f) = what})
    IN [dest |-> [n \in names |->
                     IF \E f \in copied : TweeksPrefix \o f = n
                     THEN fs[source(n)] ELSE dst[n]],
        added |-> count("added"),
        skipped |-> count("skipped"),
        overwritten |-> count("overwritten")]

\* init_git_repo(output_dir): [is_new, git, written]: whether .git was
\* absent, the git command run, and the files written when they are absent
init_git_repo(repo) ==
    [is_new |-> ~repo,
     git |-> IF ~repo THEN <<"init">> ELSE <<>>,
     written |-> IF ~repo THEN {".gitignore", "README.md"} ELSE {}]

\* git_commit(output_dir, added, updated, removed, is_first_sync): the git
\* commands it runs
git_commit(added, updated, removed, is_first_sync) ==
    IF ~is_first_sync /\ added = 0 /\ updated = 0 /\ removed = 0
    THEN <<>>
    ELSE <<"add", "commit">>

\* The loop over the databases in sync: all_scripts.update(scripts) for every
\* database whose extension is verified
RECURSIVE MergeDatabases(_, _)
MergeDatabases(all_scripts, dbs) ==
    IF dbs = <<>> THEN all_scripts
    ELSE MergeDatabases(IF dbs[1].verified
                        THEN DictUpdate(all_scripts,
                                        extract_userscripts(dbs[1]).scripts)
                        ELSE all_scripts,
                        Tail(dbs))

----------------------------------------------------------------------------
(* The export specification: any sequence of export_userscripts calls on   *)
(* one output directory, each run to its end or interrupted.               *)

EmptyManifest == [kind |-> "ok", scripts |-> <<>>, last_updated |-> 0]

NoCall ==
    [op |-> "none", scripts |-> <<>>, include_manifest |-> FALSE, cut |-> 0,
     pre |-> [files |-> NoFiles, writer |-> NoFiles, manifest |-> NoManifest],
     res |-> [exported |-> <<>>, added |-> 0, updated |-> 0, removed |-> 0,
              fault |-> FALSE, returned |-> FALSE]]

\* The record kept of a call: its arguments, the directory it started from
\* and what it returned.
CallRecord(op, scripts, include_manifest, cut, r) ==
    [op |-> op, scripts |-> scripts, include_manifest |-> include_manifest,
     cut |-> cut,
     pre |-> [files |-> files, writer |-> writer, manifest |-> manifest],
     res |-> [exported |-> r.exported, added |-> r.added, updated |-> r.updated,
              removed |-> r.removed, fault |-> r.fault, returned |-> r.returned]]

NoMirror == [added |-> 0, skipped |-> 0, overwritten |-> 0]

NoSync ==
    [op |-> "none", outcome |-> "none", all_scripts |-> <<>>,
     include_manifest |-> FALSE, has_dest |-> FALSE, is_first_sync |-> FALSE,
     reported |-> FALSE, exported |-> <<>>, added |-> 0, updated |-> 0,
     removed |-> 0, git |-> <<>>, mirror |-> NoMirror,
     pre |-> [files |-> NoFiles, manifest |-> NoManifest, gitRepo |-> FALSE,
              repoFiles |-> {}, gitLog |-> <<>>, dest |-> NoFiles]]

NoExtract == [op |-> "none", db |-> <<>>, scripts |-> <<>>, fallback |-> FALSE]

SyncIdle ==
    /\ gitRepo = FALSE
    /\ repoFiles = {}
    /\ gitLog = <<>>
    /\ dest = NoFiles
    /\ lastSync = NoSync
    /\ extracted = NoExtract

SlugIdle ==
    /\ slugText = <<>>
    /\ slugResult = <<>>
    /\ slugCalls = 0

ScanIdle ==
    /\ buf = <<>>
    /\ idx = 1
    /\ starts = <<>>
    /\ found = <<>>
    /\ scanPc = "done"

Init ==
    /\ files = NoFiles
    /\ writer = NoFiles
    /\ manifest \in {NoManifest, EmptyManifest}
    /\ clock = 0
    /\ last = NoCall
    /\ SyncIdle
    /\ ScanIdle
    /\ SlugIdle

\* A call of export_userscripts that runs until it returns or raises
Export(scripts, include_manifest) ==
    /\ clock < MaxRuns
    /\ \E r \in {export_userscripts(scripts, files, writer, manifest,
                                      include_manifest, clock + 1,
                                      Len(scripts) + 1)} :
          /\ files' = r.files
          /\ writer' = r.writer
          /\ manifest' = r.manifest
          /\ last' = CallRecord("export", scripts, include_manifest,
                                Len(scripts) + 1, r)
    /\ clock' = clock + 1
    /\ UNCHANGED <<syncVars, scanVars, slugVars>>

\* A call with the manifest enabled whose process is stopped after cut loop
\* iterations: between two file writes, or after the last file write and
\* before the manifest block.
ExportInterrupted(scripts, cut) ==
    /\ clock < MaxRuns
    /\ cut \in 1..Len(scripts)
    /\ \E r \in {export_userscripts(scripts, files, writer, manifest, TRUE,
                                      clock + 1, cut)} :
          /\ ~r.fault
          /\ files' = r.files
          /\ writer' = r.writer
          /\ manifest' = r.manifest
          /\ last' = CallRecord("interrupted", scripts, TRUE, cut, r)
    /\ clock' = clock + 1
    /\ UNCHANGED <<syncVars, scanVars, slugVars>>

Next ==
    \/ \E scripts \in ScriptMaps, include_manifest \in BOOLEAN :
          Export(scripts, include_manifest)
    \/ \E scripts \in ScriptMaps, cut \in 1..2 : ExportInterrupted(scripts, cut)

Spec == Init /\ [][Next]_vars

\* A manifest.json that json.load rejects
BadJsonManifest == [kind |-> "badjson", scripts |-> <<>>, last_updated |-> 0]

\* A manifest.json holding a JSON object without a "scripts" key
NoScriptsManifest == [kind |-> "noscripts", scripts |-> <<>>, last_updated |-> 0]

\* The same calls on an output directory whose manifest.json may have been
\* left missing or corrupt
ManifestInit ==
    /\ files = NoFiles
    /\ writer = NoFiles
    /\ manifest \in {NoManifest, EmptyManifest, BadJsonManifest, NoScriptsManifest}
    /\ clock = 0
    /\ last = NoCall
    /\ SyncIdle
    /\ ScanIdle
    /\ SlugIdle

SpecManifest == ManifestInit /\ [][Next]_vars

----------------------------------------------------------------------------
(* The scanner specification: parse_scripts_from_text on one buffer, one   *)
(* pass of its outer loop per step.                                        *)

\* {"i":"U"}: a record with one script
RecordPlain == <<"{", Quote, "i", Quote, ":", Quote, "U", Quote, "}">>
\* {"a":"U}"}: a record whose script text holds a closing brace
RecordBrace == <<"{", Quote, "a", Quote, ":", Quote, "U", "}", Quote, "}">>
\* {"i":"U\""}: a record whose script text holds an escaped quote
RecordQuote ==
    <<"{", Quote, "i", Quote, ":", Quote, "U", Backslash, Quote, Quote, "}">>

GoodRecords == {RecordPlain, RecordBrace, RecordQuote}

\* {"a      a record cut inside its key
CutInKey == <<"{", Quote, "a">>
\* {"a":{   a record cut after an inner opening brace
CutInObject == <<"{", Quote, "a", Quote, ":", "{">>
\* {"a"}    braces that balance around text that is no JSON object
NoValue == <<"{", Quote, "a", Quote, "}">>
\* {"a":"U  a record cut inside its script text
CutInScript == <<"{", Quote, "a", Quote, ":", Quote, "U">>

BadFragments == {CutInKey, CutInObject, NoValue, CutInScript}

\* {"a":{"i":"U"}}: a record whose value is an object
RecordNested ==
    <<"{", Quote, "a", Quote, ":", "{", Quote, "i", Quote, ":", Quote, "U", Quote,
      "}", "}">>
\* {"i":"U\\"}: a record whose script text ends with an escaped backslash
RecordBackslash ==
    <<"{", Quote, "i", Quote, ":", Quote, "U", Backslash, Backslash, Quote, "}">>
\* {"i":"U\"}"}: a record whose script text holds an escaped quote and a brace
RecordEscapedBrace ==
    <<"{", Quote, "i", Quote, ":", Quote, "U", Backslash, Quote, "}", Quote, "}">>

MoreRecords == {RecordNested, RecordBackslash, RecordEscapedBrace}

Fragments == GoodRecords \cup BadFragments \cup MoreRecords

RECURSIVE Concat(_)
Concat(fs) == IF fs = <<>> THEN <<>> ELSE fs[1] \o Concat(Tail(fs))

SeqsUpTo(S, n) == UNION {[1..k -> S] : k \in 0..n}

FragBuffers == {Concat(fs) : fs \in SeqsUpTo(Fragments, MaxFrags)}

ScanChars == {"{", "}", Quote, Backslash, Sentinel}

RawBuffers == SeqsUpTo(ScanChars, MaxRaw)

Buffers == FragBuffers \cup RawBuffers

ExportIdle ==
    /\ files = NoFiles
    /\ writer = NoFiles
    /\ manifest = NoManifest
    /\ clock = 0
    /\ last = NoCall

ScanInit ==
    /\ buf = <<>>
    /\ idx = 1
    /\ starts = <<>>
    /\ found = <<>>
    /\ scanPc = "call"
    /\ ExportIdle
    /\ SyncIdle
    /\ SlugIdle

\* parse_scripts_from_text(text) is entered: found = {}, idx = 0
ScanCall(text) ==
    /\ scanPc = "call"
    /\ buf' = text
    /\ idx' = 1
    /\ found' = <<>>
    /\ starts' = <<>>
    /\ scanPc' = "scan"
    /\ UNCHANGED <<exportVars, syncVars, slugVars>>

\* The branch the pass from search index `from` takes
ScanBranch(text, from) ==
    LET start == Find(text, from)
    IN IF start = 0 THEN "break"
       ELSE IF ~SentinelAhead(text, start) THEN "reject"
       ELSE IF RecordEnd(text, start) > start THEN "record"
       ELSE "noend"

\* text.find returns -1: break
ScanBreak ==
    /\ scanPc = "scan"
    /\ ScanBranch(buf, idx) = "break"
    /\ scanPc' = "done"
    /\ UNCHANGED <<buf, idx, starts, found>>
    /\ UNCHANGED <<exportVars, syncVars, slugVars>>

\* no sentinel within the window after the candidate: idx = start + 1
ScanReject ==
    /\ scanPc = "scan"
    /\ ScanBranch(buf, idx) = "reject"
    /\ idx' = ScanPass(buf, idx, found).idx
    /\ starts' = Append(starts, ScanPass(buf, idx, found).start)
    /\ UNCHANGED <<buf, found, scanPc>>
    /\ UNCHANGED <<exportVars, syncVars, slugVars>>

\* the depth returned to zero: the delimited text is parsed, idx = end
ScanRecord ==
    /\ scanPc = "scan"
    /\ ScanBranch(buf, idx) = "record"
    /\ idx' = ScanPass(buf, idx, found).idx
    /\ starts' = Append(starts, ScanPass(buf, idx, found).start)
    /\ found' = ScanPass(buf, idx, found).found
    /\ UNCHANGED <<buf, scanPc>>
    /\ UNCHANGED <<exportVars, syncVars, slugVars>>

\* the depth never returned to zero: idx = start + 1
ScanNoEnd ==
    /\ scanPc = "scan"
    /\ ScanBranch(buf, idx) = "noend"
    /\ idx' = ScanPass(buf, idx, found).idx
    /\ starts' = Append(starts, ScanPass(buf, idx, found).start)
    /\ UNCHANGED <<buf, found, scanPc>>
    /\ UNCHANGED <<exportVars, syncVars, slugVars>>

\* A pass of the outer loop
ScanLoop == ScanBreak \/ ScanReject \/ ScanRecord \/ ScanNoEnd

ScanNext ==
    \/ \E text \in Buffers : ScanCall(text)
    \/ ScanLoop

SpecScan == ScanInit /\ [][ScanNext]_vars

----------------------------------------------------------------------------
(* The extraction specification: extract_userscripts on one database.      *)

\* Log files: what the scanner finds in them and whether they can be read
LogFoo1 == [readable |-> TRUE, found |-> <<<<Id1, TextFoo1>>>>]
LogFoo2 == [readable |-> TRUE, found |-> <<<<Id1, TextFoo2>>, <<Id3, TextNoHeader>>>>]
LogEmpty == [readable |-> TRUE, found |-> <<>>]
LogLocked == [readable |-> FALSE, found |-> <<<<Id1, TextFooCR>>>>]
LogFiles == {LogFoo1, LogFoo2, LogEmpty, LogLocked}

\* Table files
LdbSlug == [readable |-> TRUE, found |-> <<<<Id2, TextSlug>>>>]
LdbFoo == [readable |-> TRUE, found |-> <<<<Id1, TextFoo1>>, <<Id2, TextSlug>>>>]
LdbLocked == [readable |-> FALSE, found |-> <<<<Id3, TextNoHeader>>>>]
LdbFiles == {LdbSlug, LdbFoo, LdbLocked}

Dbs ==
    [verified : BOOLEAN,
     logs : SeqsUpTo(LogFiles, MaxLogs),
     ldbs : SeqsUpTo(LdbFiles, MaxLogs)]

ExtractInit ==
    /\ ExportIdle
    /\ SyncIdle
    /\ ScanIdle
    /\ SlugIdle

\* A call of extract_userscripts(db_path)
Extract(db) ==
    /\ extracted.op = "none"
    /\ extracted' = [op |-> "extract", db |-> db,
                     scripts |-> extract_userscripts(db).scripts,
                     fallback |-> extract_userscripts(db).fallback]
    /\ UNCHANGED <<gitRepo, repoFiles, gitLog, dest, lastSync>>
    /\ UNCHANGED <<exportVars, scanVars, slugVars>>

ExtractNext == \E db \in Dbs : Extract(db)

SpecExtract == ExtractInit /\ [][ExtractNext]_vars

----------------------------------------------------------------------------
(* The sync specification: any sequence of sync calls on one output        *)
(* directory and one destination directory.                                *)

\* Databases that find_tweeks_databases may return
DbPrimary == [verified |-> TRUE, logs |-> <<LogFoo1, LogFoo2>>, ldbs |-> <<LdbSlug>>]
DbFallback == [verified |-> TRUE, logs |-> <<LogEmpty, LogLocked>>, ldbs |-> <<LdbSlug>>]
DbEmpty == [verified |-> TRUE, logs |-> <<LogEmpty>>, ldbs |-> <<>>]
DbUnverified == [verified |-> FALSE, logs |-> <<LogFoo1>>, ldbs |-> <<>>]
DbCR ==
    [verified |-> TRUE,
     logs |-> <<[readable |-> TRUE, found |-> <<<<Id1, TextFooCR>>>>]>>,
     ldbs |-> <<>>]
DbTwoNames ==
    [verified |-> TRUE,
     logs |-> <<[readable |-> TRUE, found |-> <<<<Id2, TextTwoNames>>>>]>>,
     ldbs |-> <<>>]

DbFoo == [verified |-> TRUE, logs |-> <<LogFoo1>>, ldbs |-> <<>>]

SyncDbs == {DbPrimary, DbFallback, DbEmpty, DbUnverified, DbCR, DbTwoNames, DbFoo}

DbLists ==
    {<<>>} \cup {<<d>> : d \in SyncDbs}
           \cup {<<DbUnverified, DbPrimary>>, <<DbPrimary, DbFallback>>,
                 <<DbFallback, DbCR>>, <<DbPrimary, DbTwoNames>>}

\* A faulty variant: the test of the merged mapping is left out.
NoSourceDataNoDatabases(databases, all_scripts) == databases = <<>>

\* `if not databases: return` and `if not all_scripts: return`
NoSourceData(databases, all_scripts) == databases = <<>> \/ all_scripts = <<>>

SyncInit ==
    /\ ExportIdle
    /\ SyncIdle
    /\ ScanIdle
    /\ SlugIdle

\* The record kept of a sync call
SyncRecord(outcome, all_scripts, include_manifest, has_dest, first, r, git, mirror) ==
    [op |-> "sync", outcome |-> outcome, all_scripts |-> all_scripts,
     include_manifest |-> include_manifest, has_dest |-> has_dest,
     is_first_sync |-> first,
     reported |-> r.returned, exported |-> r.exported, added |-> r.added,
     updated |-> r.updated, removed |-> r.removed, git |-> git,
     mirror |-> mirror,
     pre |-> [files |-> files, manifest |-> manifest, gitRepo |-> gitRepo,
              repoFiles |-> repoFiles, gitLog |-> gitLog, dest |-> dest]]

\* ensure_chrome_closed() is false: sys.exit(1)
SyncChromeOpen ==
    /\ clock < MaxSyncs
    /\ lastSync' = SyncRecord("exit", <<>>, FALSE, FALSE, FALSE, NoCall.res, <<>>,
                              NoMirror)
    /\ clock' = clock + 1
    /\ UNCHANGED <<files, writer, manifest, last>>
    /\ UNCHANGED <<gitRepo, repoFiles, gitLog, dest, extracted>>
    /\ UNCHANGED <<scanVars, slugVars>>

\* find_tweeks_databases() is empty, or no script is extracted: return
SyncNoData(databases) ==
    /\ clock < MaxSyncs
    /\ NoSourceData(databases, MergeDatabases(<<>>, databases))
    /\ lastSync' = SyncRecord(IF databases = <<>> THEN "no_extensions"
                              ELSE "no_scripts",
                              <<>>, FALSE, FALSE, FALSE, NoCall.res, <<>>, NoMirror)
    /\ clock' = clock + 1
    /\ UNCHANGED <<files, writer, manifest, last>>
    /\ UNCHANGED <<gitRepo, repoFiles, gitLog, dest, extracted>>
    /\ UNCHANGED <<scanVars, slugVars>>

\* export_userscripts raises: the repository is initialised, the files of
\* the iterations before the fault are written, and the process ends
SyncFault(databases, include_manifest, has_dest, init_ok) ==
    /\ clock < MaxSyncs
    /\ \E all_scripts \in {MergeDatabases(<<>>, databases)} :
       \E r \in {export_userscripts(all_scripts, files, writer, manifest,
                                     include_manifest, clock + 1,
                                     Len(all_scripts) + 1)} :
       LET repo == init_git_repo(gitRepo)
       IN /\ ~NoSourceData(databases, all_scripts)
          /\ r.fault
          /\ gitRepo' = (gitRepo \/ init_ok)
          /\ repoFiles' = repoFiles \cup repo.written
          /\ gitLog' = gitLog \o repo.git
          /\ files' = r.files
          /\ writer' = r.writer
          /\ manifest' = r.manifest
          /\ last' = CallRecord("export", all_scripts, include_manifest,
                                Len(all_scripts) + 1, r)
          /\ lastSync' = SyncRecord("fault", all_scripts, include_manifest,
                                    has_dest, repo.is_new, r, repo.git, NoMirror)
    /\ clock' = clock + 1
    /\ UNCHANGED <<dest, extracted>>
    /\ UNCHANGED <<scanVars, slugVars>>

\* The sync runs to its end: init_git_repo, export_userscripts, git_commit
\* and, with a destination, copy_to_destination.  init_ok tells whether
\* git init, when it is run, creates .git.
SyncComplete(databases, include_manifest, has_dest, init_ok) ==
    /\ clock < MaxSyncs
    /\ \E all_scripts \in {MergeDatabases(<<>>, databases)} :
       \E r \in {export_userscripts(all_scripts, files, writer, manifest,
                                     include_manifest, clock + 1,
                                     Len(all_scripts) + 1)} :
       \E mirror \in {IF has_dest THEN copy_to_destination(r.files, dest)
                      ELSE [dest |-> dest] @@ NoMirror} :
       LET repo == init_git_repo(gitRepo)
           git == repo.git \o git_commit(r.added, r.updated, r.removed, repo.is_new)
       IN /\ ~NoSourceData(databases, all_scripts)
          /\ ~r.fault
          /\ gitRepo' = (gitRepo \/ init_ok)
          /\ repoFiles' = repoFiles \cup repo.written
          /\ gitLog' = gitLog \o git
          /\ files' = r.files
          /\ writer' = r.writer
          /\ manifest' = r.manifest
          /\ dest' = mirror.dest
          /\ last' = CallRecord("export", all_scripts, include_manifest,
                                Len(all_scripts) + 1, r)
          /\ lastSync' = SyncRecord("complete", all_scripts, include_manifest,
                                    has_dest, repo.is_new, r, git,
                                    [added |-> mirror.added,
                                     skipped |-> mirror.skipped,
                                     overwritten |-> mirror.overwritten])
    /\ clock' = clock + 1
    /\ UNCHANGED extracted
    /\ UNCHANGED <<scanVars, slugVars>>

SyncNext ==
    \/ SyncChromeOpen
    \/ \E databases \in DbLists : SyncNoData(databases)
    \/ \E databases \in DbLists, include_manifest, has_dest, init_ok \in BOOLEAN :
          SyncFault(databases, include_manifest, has_dest, init_ok)
    \/ \E databases \in DbLists, include_manifest, has_dest, init_ok \in BOOLEAN :
          SyncComplete(databases, include_manifest, has_dest, init_ok)

SpecSync == SyncInit /\ [][SyncNext]_vars

----------------------------------------------------------------------------
(* The slug specification: slugify on a name, then again on the same name  *)
(* or on its own result.                                                   *)

\* "My Script! v2.0"
NameMyScript ==
    <<"M","y"," ","S","c","r","i","p","t","!"," ","v","2",".","0">>

\* an upper-case and a lower-case letter, a digit, the underscore, two kinds
\* of white space, the hyphen and two characters that are stripped
NameChars == {"A", "b", "2", "_", " ", "\t", "-", "!", "."}

Names == SeqsUpTo(NameChars, MaxName) \cup {NameMyScript, NameFooBar}

SlugInit ==
    /\ ExportIdle
    /\ SyncIdle
    /\ ScanIdle
    /\ SlugIdle

\* slugify(name)
SlugifyName(name) ==
    /\ slugCalls = 0
    /\ slugText' = name
    /\ slugResult' = slugify(name)
    /\ slugCalls' = 1
    /\ UNCHANGED <<exportVars, syncVars, scanVars>>

\* slugify on the same name once more
SlugifySame ==
    /\ slugCalls \in 1..(MaxSlugCalls - 1)
    /\ slugText' = slugText
    /\ slugResult' = slugify(slugText)
    /\ slugCalls' = slugCalls + 1
    /\ UNCHANGED <<exportVars, syncVars, scanVars>>

\* slugify on the slug the last call returned
SlugifySlug ==
    /\ slugCalls \in 1..(MaxSlugCalls - 1)
    /\ slugText' = slugResult
    /\ slugResult' = slugify(slugResult)
    /\ slugCalls' = slugCalls + 1
    /\ UNCHANGED <<exportVars, syncVars, scanVars>>

SlugNext ==
    \/ \E name \in Names : SlugifyName(name)
    \/ SlugifySame
    \/ SlugifySlug

SpecSlug == SlugInit /\ [][SlugNext]_vars

----------------------------------------------------------------------------
(* Properties of export_userscripts, checked under Spec.                   *)

\* The previous step was a call that ran to its end and returned
Returned(c) == c.op = "export" /\ c.res.returned

\* The call recorded in c wrote the manifest
ManifestWritten(c) ==
    /\ Returned(c)
    /\ c.include_manifest
    /\ c.res.added + c.res.updated + c.res.removed > 0

Uuids(entries) == {entries[i].uuid : i \in 1..Len(entries)}

EntrySet(m) == Range(m.scripts)

\* An entry without its time stamp
Untimed(e) ==
    [uuid |-> e.uuid, name |-> e.name, filename |-> e.filename,
     metadata |-> e.metadata]

UntimedEntries(m) == [i \in 1..Len(m.scripts) |-> Untimed(m.scripts[i])]

\* The file name a script is exported to; <<>> when its name is a list
TargetOf(pair) ==
    LET nm == NameOf(pair[1], MetadataOf[pair[2]])
    IN IF nm.list THEN <<>> ELSE Filename(SlugOf[nm.v[1]])

\* C1 (as claimed): when a call that returned is followed by a call with the
\* same scripts and the same manifest switch on the directory it left, the
\* second call reports added = 0 and updated = 0 and leaves the manifest's
\* set of entries as it was.
C1_Idempotence ==
    [][(/\ Returned(last)
        /\ clock' = clock + 1
        /\ last'.op = "export"
        /\ last'.scripts = last.scripts
        /\ last'.include_manifest = last.include_manifest)
       => (/\ last'.res.returned
           /\ last'.res.added = 0
           /\ last'.res.updated = 0
           /\ EntrySet(manifest') = EntrySet(manifest))]_vars

\* C2 (as claimed): after a call, every script file that existed before it
\* still exists, and its content is the same unless the id that wrote it is in
\* the call's input with a text different from that content.
C2_NonDeletionById ==
    last.op # "none" =>
        \A f \in DOMAIN last.pre.files :
            /\ f \in DOMAIN files
            /\ files[f] # last.pre.files[f] =>
                  \E i \in 1..Len(last.scripts) :
                      /\ last.scripts[i][1] = last.pre.writer[f]
                      /\ last.scripts[i][2] # last.pre.files[f]

\* C2 (amended): after a call, every script file that existed before it still
\* exists, and its content is the same unless some id of the call's input is
\* exported to that file name with a text different from that content.
C2_NonDeletionByFilename ==
    last.op # "none" =>
        \A f \in DOMAIN last.pre.files :
            /\ f \in DOMAIN files
            /\ files[f] # last.pre.files[f] =>
                  \E i \in 1..Len(last.scripts) :
                      /\ TargetOf(last.scripts[i]) = f
                      /\ last.scripts[i][2] # last.pre.files[f]

\* A call found a file of an earlier run that its input does not name and
\* kept it, and overwrote another one.
C2_Witness ==
    /\ last.op # "none"
    /\ \E f \in DOMAIN last.pre.files :
          /\ \A i \in 1..Len(last.scripts) : TargetOf(last.scripts[i]) # f
          /\ files[f] = last.pre.files[f]
    /\ \E f \in DOMAIN last.pre.files : files[f] # last.pre.files[f]

\* C3 (as claimed): when a call with the manifest enabled is interrupted and
\* a call with the same scripts then runs to its end, the directory (script
\* files and manifest entries, time stamps aside) is what one uninterrupted
\* call from the interrupted call's starting directory leaves.
C3_RerunConverges ==
    [][(/\ last.op = "interrupted"
        /\ clock' = clock + 1
        /\ last'.op = "export"
        /\ last'.include_manifest
        /\ last'.scripts = last.scripts)
       => LET ref == export_userscripts(last.scripts, last.pre.files,
                                        last.pre.writer, last.pre.manifest,
                                        TRUE, clock, Len(last.scripts) + 1)
          IN ref.returned =>
                /\ files' = ref.files
                /\ manifest'.kind = ref.manifest.kind
                /\ UntimedEntries(manifest') = UntimedEntries(ref.manifest)]_vars

\* The scripts list a manifest update starts from
LoadedScripts(m) == IF m.kind = "ok" THEN m.scripts ELSE <<>>

\* C4: a manifest update keeps every existing entry at its position, replaced
\* by the run's entry when the run has one with its id, and appends the run's
\* entries with new ids at the end, in processing order.
C4_ManifestMerge ==
    ManifestWritten(last) =>
        LET old == LoadedScripts(last.pre.manifest)
            exp == last.res.exported
            new == manifest.scripts
            fresh == SelectSeq(exp, LAMBDA e : e.uuid \notin Uuids(old))
        IN /\ manifest.kind = "ok"
           /\ Len(new) = Len(old) + Len(fresh)
           /\ \A i \in 1..Len(old) :
                 IF old[i].uuid \in Uuids(exp)
                 THEN \E k \in 1..Len(exp) :
                         exp[k].uuid = old[i].uuid /\ new[i] = exp[k]
                 ELSE new[i] = old[i]
           /\ \A k \in 1..Len(fresh) : new[Len(old) + k] = fresh[k]

\* Existing [A, B], a run producing A and C: the manifest is [A', B, C]
C4_Witness ==
    /\ ManifestWritten(last)
    /\ Len(last.pre.manifest.scripts) = 2
    /\ Len(manifest.scripts) = 3
    /\ Uuids(last.res.exported) =
          {last.pre.manifest.scripts[1].uuid, manifest.scripts[3].uuid}
    /\ manifest.scripts[1] # last.pre.manifest.scripts[1]
    /\ manifest.scripts[1].uuid = last.pre.manifest.scripts[1].uuid
    /\ manifest.scripts[2] = last.pre.manifest.scripts[2]

\* C5: the manifest holds at most one entry per script id.
C5_ManifestUnique ==
    \A i, j \in 1..Len(manifest.scripts) :
        manifest.scripts[i].uuid = manifest.scripts[j].uuid => i = j

\* A manifest update replaced the entry of an id that the manifest already
\* held, next to another entry
C5_Witness ==
    /\ ManifestWritten(last)
    /\ Len(manifest.scripts) >= 2
    /\ Uuids(last.res.exported) \cap Uuids(last.pre.manifest.scripts) # {}

\* C8 (as claimed): in a call that returned, each script in turn is written
\* and counted as added when its file is absent, overwritten and counted as
\* updated when its file holds other content, and neither written nor counted
\* when its file holds exactly its text; removed is 0; and "Foo Bar" alone
\* against an empty directory gives foo-bar.user.js, added 1, updated 0.
C8_Decisions ==
    Returned(last) =>
        /\ last.res.removed = 0
        /\ \A i \in 1..Len(last.scripts) :
              LET before == ExportLoop(last.scripts, i - 1, last.pre.files,
                                       last.pre.writer, clock)
                  after == ExportLoop(last.scripts, i, last.pre.files,
                                      last.pre.writer, clock)
                  f == TargetOf(last.scripts[i])
                  script == last.scripts[i][2]
              IN IF f \notin DOMAIN before.files
                 THEN /\ after.files[f] = script
                      /\ after.added = before.added + 1
                      /\ after.updated = before.updated
                 ELSE IF before.files[f] # script
                 THEN /\ after.files[f] = script
                      /\ after.added = before.added
                      /\ after.updated = before.updated + 1
                 ELSE /\ after.files = before.files
                      /\ after.added = before.added
                      /\ after.updated = before.updated
        /\ (last.scripts = <<<<Id1, TextFoo1>>>> /\ last.pre.files = NoFiles) =>
              /\ DOMAIN files = {Filename(NameFooBarSlug)}
              /\ files[Filename(NameFooBarSlug)] = TextFoo1
              /\ last.res.added = 1
              /\ last.res.updated = 0

----------------------------------------------------------------------------
(* Properties of parse_scripts_from_text, checked under SpecScan.          *)

\* The scripts of a well-formed record
RecordScripts(record) == CollectScripts(<<>>, json_loads(record).val.v)

\* C6 (as claimed): when the buffer is a truncated or malformed fragment next
\* to (before or after) a well-formed record, the scan returns exactly the
\* scripts of the well-formed record.
C6_ScannerRobust ==
    scanPc = "done" =>
        \A bad \in BadFragments, good \in GoodRecords :
            buf \in {bad \o good, good \o bad} => found = RecordScripts(good)

\* C7: every pass of the outer loop either ends the loop or moves the search
\* index forward, never beyond the end of the buffer, so the loop ends after
\* at most Len(buf) + 1 passes; and the candidate start offsets examined are
\* strictly increasing.
C7_ForwardProgress ==
    [][scanPc = "scan" =>
          /\ scanPc' = "done" \/ (scanPc' = "scan" /\ idx < idx')
          /\ idx' <= Len(buf) + 1
          /\ \A i, j \in 1..Len(starts') : i < j => starts'[i] < starts'[j]]_vars

\* The loop ended after a candidate that was passed over and a record that
\* was parsed
C7_Witness == scanPc = "done" /\ Len(starts) >= 2 /\ found # <<>>

----------------------------------------------------------------------------
(* Properties of extract_userscripts, checked under SpecExtract.           *)

\* The ids that the scan of the readable log files of db finds
LogIds(db) ==
    UNION {Keys(db.logs[i].found) : i \in {j \in 1..Len(db.logs) : db.logs[j].readable}}

\* C9: the table files are consulted only when the scan of all the log files
\* gave no script; when the log files gave some script, the mapping returned
\* holds only ids found in the log files.
C9_FallbackPolicy ==
    extracted.op = "extract" =>
        /\ extracted.fallback => LogIds(extracted.db) = {}
        /\ LogIds(extracted.db) # {} => Keys(extracted.scripts) \subseteq LogIds(extracted.db)

\* A database whose log files give a script and whose table files hold an id
\* that no log file holds
C9_Witness ==
    /\ extracted.op = "extract"
    /\ LogIds(extracted.db) # {}
    /\ \E i \in 1..Len(extracted.db.ldbs) :
          /\ extracted.db.ldbs[i].readable
          /\ ~(Keys(extracted.db.ldbs[i].found) \subseteq LogIds(extracted.db))
    /\ ~extracted.fallback

----------------------------------------------------------------------------
(* Properties of sync, checked under SpecSync.                             *)

\* The sync found scripts, so it went on to the export
Exporting(c) == c.op = "sync" /\ c.outcome \in {"fault", "complete"}

CommitRequested(c) == \E i \in 1..Len(c.git) : c.git[i] = "commit"

StagingRequested(c) == \E i \in 1..Len(c.git) : c.git[i] = "add"

\* C10: in a sync that found scripts, a commit is requested if and only if no
\* repository existed before the run or the export reported
\* added + updated + removed > 0; when nothing changed on a non-first sync,
\* neither staging nor commit is invoked.
C10_CommitRule ==
    Exporting(lastSync) =>
        LET first == ~lastSync.pre.gitRepo
            changed == /\ lastSync.reported
                       /\ lastSync.added + lastSync.updated + lastSync.removed > 0
        IN /\ CommitRequested(lastSync) <=> (first \/ changed)
           /\ ~first /\ ~changed =>
                 ~CommitRequested(lastSync) /\ ~StagingRequested(lastSync)

\* The sync ran copy_to_destination
Mirrored(c) == c.op = "sync" /\ c.outcome = "complete" /\ c.has_dest

\* C11 (as claimed): after a mirror run, for every script file F of the
\* output directory, tweeks.F was left alone and counted as skipped when it
\* existed with the content of F, and was copied otherwise, counted as added
\* when it did not exist and as overwritten when it did; every tweeks.F equals
\* F; the three counters add up to the number of script files; no destination
\* file is deleted; and a second mirror run reports every file as skipped.
C11_Mirror ==
    Mirrored(lastSync) =>
        LET old == lastSync.pre.dest
            same == {f \in DOMAIN files :
                        /\ TweeksPrefix \o f \in DOMAIN old
                        /\ old[TweeksPrefix \o f] = files[f]}
            fresh == {f \in DOMAIN files : TweeksPrefix \o f \notin DOMAIN old}
            again == copy_to_destination(files, dest)
        IN /\ lastSync.mirror.skipped = Cardinality(same)
           /\ lastSync.mirror.added = Cardinality(fresh)
           /\ lastSync.mirror.overwritten =
                 Cardinality(DOMAIN files \ (same \cup fresh))
           /\ \A f \in DOMAIN files :
                 /\ TweeksPrefix \o f \in DOMAIN dest
                 /\ dest[TweeksPrefix \o f] = files[f]
           /\ lastSync.mirror.added + lastSync.mirror.skipped
                 + lastSync.mirror.overwritten = Cardinality(DOMAIN files)
           /\ \A n \in DOMAIN old : n \in DOMAIN dest
           /\ again.skipped = Cardinality(DOMAIN files)
           /\ again.added = 0
           /\ again.overwritten = 0

----------------------------------------------------------------------------
(* Further properties of parse_scripts_from_text, checked under SpecScan.  *)

\* The pass from the search index delimits a text that json.loads rejects
ParseFails ==
    /\ scanPc = "scan"
    /\ ScanBranch(buf, idx) = "record"
    /\ ~json_loads(SubSeq(buf, Find(buf, idx),
                          RecordEnd(buf, Find(buf, idx)) - 1)).ok

\* C12 (as claimed): when the text delimited from an accepted candidate start
\* fails to parse as JSON, the outer search resumes at the byte after that
\* start.
C12_ResumeAfterFailure ==
    [][ParseFails => idx' = Find(buf, idx) + 1]_vars

----------------------------------------------------------------------------
(* Further properties of export_userscripts, checked under Spec.           *)

\* The position in the input of the last script exported to file name f
LastFor(scripts, f) ==
    CHOOSE i \in 1..Len(scripts) :
        /\ TargetOf(scripts[i]) = f
        /\ \A j \in (i + 1)..Len(scripts) : TargetOf(scripts[j]) # f

\* C13 (as claimed): after a call that returned, every file named by some
\* input script holds exactly the text of the last-processed input id that
\* maps to that file name.
C13_LastWriterWins ==
    Returned(last) =>
        \A i \in 1..Len(last.scripts) :
            LET f == TargetOf(last.scripts[i])
            IN /\ f \in DOMAIN files
               /\ files[f] = last.scripts[LastFor(last.scripts, f)][2]

\* The call recorded in c ended its loop and entered the manifest block
ManifestBlockEntered(c) ==
    /\ c.op = "export"
    /\ c.include_manifest
    /\ Len(c.res.exported) = Len(c.scripts)
    /\ c.res.added + c.res.updated + c.res.removed > 0

\* C14 (as claimed; checked under SpecManifest): when a manifest update
\* happens and manifest.json is missing or corrupt (rejected by the JSON
\* parser, or an object without the scripts list), the call raises no fault
\* and leaves a manifest whose entries are exactly the run's entries.
C14_ManifestRecovery ==
    (/\ ManifestBlockEntered(last)
     /\ last.pre.manifest.kind \in {"absent", "badjson", "noscripts"})
    => /\ ~last.res.fault
       /\ manifest.kind = "ok"
       /\ manifest.scripts = last.res.exported

----------------------------------------------------------------------------
(* The delimiting loop of parse_scripts_from_text, checked under SpecScan. *)

\* A candidate start the scanner accepts
Accepted(text, start) ==
    /\ start + 1 <= Len(text)
    /\ text[start] = "{"
    /\ text[start + 1] = Quote
    /\ SentinelAhead(text, start)

\* C15: from an accepted candidate start that begins a well-formed JSON
\* object, the delimited text is exactly that object: it ends where the JSON
\* parser ends the object, whatever braces, quotes and backslashes its
\* strings hold.
C15_Delimiting ==
    \A start \in 1..Len(buf) :
        (Accepted(buf, start) /\ JsonValue(buf, start).ok)
        => RecordEnd(buf, start) = JsonValue(buf, start).next

\* A buffer that begins with a record whose string holds an escaped quote
\* and a closing brace, followed by more text, was scanned and gave the
\* record's script
C15_Witness ==
    /\ scanPc = "done"
    /\ Len(buf) > Len(RecordEscapedBrace)
    /\ SubSeq(buf, 1, Len(RecordEscapedBrace)) = RecordEscapedBrace
    /\ found = RecordScripts(RecordEscapedBrace)
    /\ found # <<>>

----------------------------------------------------------------------------
(* Further properties of sync, checked under SpecSync.                     *)

\* C16: when a sync that got past the browser check finds no database, or
\* merges no script from the databases, it returns normally and leaves the
\* repository, the script files, the manifest and the destination as they
\* were, and requests no git command.
C16_NoSourceData ==
    (lastSync.op = "sync" /\ lastSync.outcome # "exit"
                          /\ lastSync.all_scripts = <<>>)
    => /\ lastSync.outcome \in {"no_extensions", "no_scripts"}
       /\ lastSync.git = <<>>
       /\ gitRepo = lastSync.pre.gitRepo
       /\ repoFiles = lastSync.pre.repoFiles
       /\ gitLog = lastSync.pre.gitLog
       /\ files = lastSync.pre.files
       /\ manifest = lastSync.pre.manifest
       /\ dest = lastSync.pre.dest

\* A sync that found databases but no script left alone a directory that an
\* earlier sync had filled
C16_Witness ==
    /\ lastSync.outcome = "no_scripts"
    /\ files # NoFiles
    /\ gitLog # <<>>

----------------------------------------------------------------------------
(* Properties of slugify, checked under SpecSlug.                          *)

\* Lower-case word characters and hyphens only, no two hyphens in a row, no
\* hyphen at either end
IsSlug(s) ==
    /\ \A i \in 1..Len(s) :
          \/ s[i] = "-"
          \/ IsWord(s[i]) /\ s[i] \notin Range(UpperSeq)
    /\ \A i \in 1..(Len(s) - 1) : ~(s[i] = "-" /\ s[i + 1] = "-")
    /\ s # <<>> => s[1] # "-" /\ s[Len(s)] # "-"

SlugMyScript == <<"m","y","-","s","c","r","i","p","t","-","v","2","0">>

\* C17: every call of slugify returns lower-case text of word characters and
\* hyphens without two consecutive hyphens and without a hyphen at either
\* end; a call on the same name returns the same slug; a call on a slug
\* returns that slug; and slugify("My Script! v2.0") = "my-script-v20".
C17_SlugRules ==
    [][slugCalls' > slugCalls =>
          /\ IsSlug(slugResult')
          /\ (slugCalls > 0 /\ slugText' = slugText) => slugResult' = slugResult
          /\ (slugCalls > 0 /\ slugText' = slugResult) => slugResult' = slugResult
          /\ slugText' = NameMyScript => slugResult' = SlugMyScript]_vars

\* slugify was called on a name that holds a separator, and then on the slug
\* it returned
C17_Witness ==
    /\ slugCalls = 2
    /\ slugText = slugResult
    /\ slugResult = <<"a", "-", "b">>

----------------------------------------------------------------------------
(* Properties of the entries of export_userscripts, checked under Spec.    *)

\* C18 (as claimed): every call that is not interrupted returns normally
\* with exactly one entry per input id, in input order, whose name is a name
\* value of the header, or the raw id when the header has none, and whose
\* filename is slugify(name) followed by ".user.js".
C18_OneEntryPerScript ==
    last.op = "export" =>
        /\ last.res.returned
        /\ Len(last.res.exported) = Len(last.scripts)
        /\ \A i \in 1..Len(last.scripts) :
              LET uuid == last.scripts[i][1]
                  metadata == parse_userscript_metadata(last.scripts[i][2])
                  e == last.res.exported[i]
              IN /\ e.uuid = uuid
                 /\ IF "name" \in DOMAIN metadata
                    THEN e.name \in Range(metadata["name"].v)
                    ELSE e.name = uuid
                 /\ e.filename = slugify(e.name) \o UserJs

\* C19 (as claimed): after a call with the manifest enabled that returned,
\* whatever the directory held before, manifest.json holds an entry for
\* every id of the call's input.
C19_ManifestCoverage ==
    (Returned(last) /\ last.include_manifest) =>
        \A i \in 1..Len(last.scripts) :
            last.scripts[i][1] \in Uuids(manifest.scripts)

\* C20: the file name of every manifest entry names a script file that
\* exists in the output directory.
C20_ManifestFilesExist ==
    \A i \in 1..Len(manifest.scripts) :
        manifest.scripts[i].filename \in DOMAIN files

\* A manifest update kept the entry of a script that the run did not export,
\* next to the run's entries
C20_Witness ==
    /\ ManifestWritten(last)
    /\ \E i \in 1..Len(manifest.scripts) :
          manifest.scripts[i].uuid \notin Uuids(last.res.exported)
    /\ last.res.exported # <<>>

====
